---- MODULE Spec2Model ----
(***************************************************************************)
(* NSE Live Turnover Tracker (src/earthquake-app.py).                      *)
(*                                                                         *)
(* Five specifications over one set of variables:                          *)
(*   SpecFetch     one fetch_single call, step by step (warm-up, then the  *)
(*                 retry loop), against every pattern of upstream          *)
(*                 responses;                                              *)
(*   Spec          the Streamlit script, rerun cycle after cycle by one    *)
(*                 session, with the wall clock, the flag file, the        *)
(*                 history file, the st.cache_data entry, write failures   *)
(*                 and process restarts;                                   *)
(*   SpecSessions  the script rerun by two sessions at once;               *)
(*   SpecPool      one fetch_data call after another, worker by worker;    *)
(*   SpecHistory   load_history and the comparison on history files of up  *)
(*                 to MaxDate stored days.                                 *)
(*                                                                         *)
(* Numbers: prices and volumes are integers; the two rounded fields        *)
(* (round(x, 2)) are kept in hundredths, so 5.25 is 525.                   *)
(***************************************************************************)
EXTENDS Integers, Sequences, FiniteSets, TLC

VARIABLES
    \* ---- one fetch_single call (SpecFetch)
    fs,
    \* ---- the environment and the disk
    clock,      \* wall clock: [day, tod], tod in seconds since midnight
    flagFile,   \* data/last_store.txt: NoFile, or its text
    histFile,   \* data/history.csv: NoFile, or [header, rows]
    cache,      \* the st.cache_data entry of the fetch_data call: NoEntry or [value, at]
    \* ---- the script run of each session (in SpecPool, its fetch_data call)
    run,
    \* ---- a record of the scheduler evaluations of the current day (observer)
    sched

appVars == <<clock, flagFile, histFile, cache, run, sched>>
vars == <<fs, clock, flagFile, histFile, cache, run, sched>>

----------------------------------------------------------------------------
(* Values *)

\* Python values are tagged by their type, so that values of two types compare
\* unequal: None, a number, a string, a date.
NoneV == [none |-> TRUE]
Num(n) == [num |-> n]
Str(s) == [str |-> s]
DateV(d) == [date |-> d]
IsNum(v) == "num" \in DOMAIN v
IsStr(v) == "str" \in DOMAIN v
\* a JSON string where the payload should carry a number
StrV == Str("n/a")
\* os.path.exists(...) is False
NoFile == [absent |-> TRUE]
\* nothing memoized
NoEntry == [empty |-> TRUE]

\* stocks, lines 20-23
stocks == <<"RELIANCE", "TCS", "HDFCBANK", "INFY", "ICICIBANK",
            "SBIN", "BHARTIARTL", "KOTAKBANK", "LT", "ITC">>

\* The model tracks the first NumStocks symbols of the list.
NumStocks == 2
Watchlist == SubSeq(stocks, 1, NumStocks)

\* The numbers an upstream payload may carry.
Prices == {Num(0), Num(100), Num(105)}
Volumes == {Num(0), Num(12345)}

----------------------------------------------------------------------------
(* fetch_single, lines 67-138 *)

\* range(3), line 95
MaxAttempts == 3
\* 1 Cr = 10,000,000, line 114
Crore == 10000000

\* What one session.get(quote_url) can bring back.
\*   timeout   the request raises an exception whose str() is empty
\*   conn      the request raises a ConnectionError
\*   http      a non-2xx status: raise_for_status() raises
\*   nonjson   a 2xx body that is not JSON: r.json() raises
\*   list      a JSON body that is not an object: data.get raises
\*   json      a JSON object; priceInfo is "missing", "null" or "dict"
Responses ==
    [kind : {"timeout", "conn", "http", "nonjson", "list"}]
    \cup [kind : {"json"}, priceInfo : {"missing", "null"}]
    \cup [kind : {"json"}, priceInfo : {"dict"},
          lastPrice : Prices \cup {NoneV, StrV},
          previousClose : Prices \cup {NoneV},
          totalTradedVolume : Volumes \cup {NoneV}]

\* str(e) of the exception each failure raises
ErrorText(kind) ==
    CASE kind = "timeout" -> ""
      [] kind = "conn" -> "ConnectionError"
      [] kind = "http" -> "HTTPError"
      [] kind = "nonjson" -> "JSONDecodeError"
      [] kind = "list" -> "AttributeError"
      [] OTHER -> "TypeError"

\* price_info.get(key, None) after price_info = data.get("priceInfo", {}) or {},
\* lines 101-105
PriceInfoGet(resp, key) ==
    IF resp.priceInfo = "dict" THEN resp[key] ELSE NoneV

\* round(num / den, 2) in hundredths, ties to even (den > 0), lines 120, 122
Round2(num, den) ==
    LET q == (num * 100) \div den
        r == (num * 100) % den
    IN  IF 2 * r > den THEN q + 1
        ELSE IF 2 * r = den THEN (IF q % 2 = 0 THEN q ELSE q + 1)
        ELSE q

\* line 108: current_price is not None and previous_close not in (None, 0)
HasPercent(cp, pc) == cp # NoneV /\ pc \notin {NoneV, Num(0)}
\* line 112: current_price is not None and volume is not None
HasValue(cp, vol) == cp # NoneV /\ vol # NoneV

\* lines 107-109 and 120
PercentChange(cp, pc) ==
    IF HasPercent(cp, pc) THEN Num(Round2((cp.num - pc.num) * 100, pc.num)) ELSE NoneV

\* Truncation to two decimals for round(value_cr, 2).
ValueCr_Truncated(cp, vol) ==
    IF HasValue(cp, vol) THEN Num((cp.num * vol.num * 100) \div Crore) ELSE NoneV

\* lines 111-114 and 122
ValueCr(cp, vol) ==
    IF HasValue(cp, vol) THEN Num(Round2(cp.num * vol.num, Crore)) ELSE NoneV

\* The arithmetic of lines 109 and 114 raises TypeError on a string operand.
ArithmeticRaises(cp, pc, vol) ==
    \/ HasPercent(cp, pc) /\ StrV \in {cp, pc}
    \/ HasValue(cp, vol) /\ StrV \in {cp, vol}

\* The record of lines 116-123
SuccessRecord(symbol, cp, pc, vol) ==
    [Symbol |-> symbol,
     CurrentPrice |-> cp,
     PreviousClose |-> pc,
     PercentChange |-> PercentChange(cp, pc),
     Volume |-> vol,
     ValueCr |-> ValueCr(cp, vol),
     Error |-> NoneV,
     HasErrorKey |-> FALSE]

\* The record of lines 130-138
FailureRecord(symbol, last_error) ==
    [Symbol |-> symbol,
     CurrentPrice |-> NoneV,
     PreviousClose |-> NoneV,
     PercentChange |-> NoneV,
     Volume |-> NoneV,
     ValueCr |-> NoneV,
     Error |-> IF last_error \in {NoneV, Str("")} THEN Str("Failed to fetch") ELSE last_error,
     HasErrorKey |-> TRUE]

\* data["priceInfo"] for data.get("priceInfo", {}): a missing key raises KeyError.
TryRaises_KeyError(resp) ==
    \/ resp.kind # "json"
    \/ resp.priceInfo = "missing"
    \/ /\ resp.priceInfo = "dict"
       /\ ArithmeticRaises(resp.lastPrice, resp.previousClose, resp.totalTradedVolume)

\* Does the body of the try of lines 96-123 raise on this response?
TryRaises(resp) ==
    \/ resp.kind # "json"
    \/ /\ resp.priceInfo = "dict"
       /\ ArithmeticRaises(resp.lastPrice, resp.previousClose, resp.totalTradedVolume)

\* except requests.RequestException for except Exception: only the network
\* failures are caught.
ExceptCatches_RequestsOnly(kind) == kind \in {"timeout", "conn", "http"}

\* except Exception, lines 89 and 125: every failure above is a subclass of
\* Exception.
ExceptCatches(kind) ==
    kind \in {"timeout", "conn", "http", "nonjson", "list", "json"}

\* One pass of the loop body, lines 96-127: the record it returns, or the error kept.
Attempt(symbol, resp) ==
    IF TryRaises(resp)
    THEN [returns |-> FALSE, error |-> Str(ErrorText(resp.kind))]
    ELSE [returns |-> TRUE,
          record |-> SuccessRecord(symbol,
                                   PriceInfoGet(resp, "lastPrice"),
                                   PriceInfoGet(resp, "previousClose"),
                                   PriceInfoGet(resp, "totalTradedVolume"))]

FsIdle == [pc |-> "idle"]

\* The call starts: session = requests.Session(), line 84
FsCall ==
    /\ fs.pc = "idle"
    /\ \E symbol \in {Watchlist[i] : i \in 1..NumStocks} :
         fs' = [pc |-> "warmup", symbol |-> symbol, warmups |-> 0, warmFailed |-> FALSE,
                attempts |-> 0, seen |-> <<>>, last_error |-> NoneV]
    /\ UNCHANGED appVars

\* A failed warm-up ends the call with the failure record, no quote attempted.
FsWarmUp_Abort ==
    /\ fs.pc = "warmup"
    /\ \E w \in {"ok", "timeout", "conn"} :
         fs' = IF w = "ok"
               THEN [fs EXCEPT !.pc = "attempt", !.warmups = @ + 1]
               ELSE [fs EXCEPT !.pc = "returned", !.warmups = @ + 1, !.warmFailed = TRUE]
                    @@ [result |-> FailureRecord(fs.symbol, Str(ErrorText(w)))]
    /\ UNCHANGED appVars

\* Step 1, lines 87-91: the warm-up request; its failure is passed over.
FsWarmUp ==
    /\ fs.pc = "warmup"
    /\ \E w \in {"ok", "timeout", "conn"} :
         fs' = IF w = "ok" \/ ExceptCatches(w)
               THEN [fs EXCEPT !.pc = "attempt", !.warmups = @ + 1,
                               !.warmFailed = (w # "ok")]
               ELSE [fs EXCEPT !.pc = "raised", !.warmups = @ + 1]
    /\ UNCHANGED appVars

\* Step 2, lines 95-127: one quote attempt.
FsAttempt ==
    /\ fs.pc = "attempt"
    /\ fs.attempts < MaxAttempts
    /\ \E resp \in Responses :
         LET a == Attempt(fs.symbol, resp)
             base == [fs EXCEPT !.attempts = @ + 1, !.seen = Append(@, resp)]
         IN  fs' = IF a.returns
                   THEN [base EXCEPT !.pc = "returned"] @@ [result |-> a.record]
                   ELSE IF ExceptCatches(resp.kind)
                   THEN [base EXCEPT !.last_error = a.error]
                   ELSE [base EXCEPT !.pc = "raised"]
    /\ UNCHANGED appVars

\* Lines 129-138: the loop is exhausted.
FsGiveUp ==
    /\ fs.pc = "attempt"
    /\ fs.attempts >= MaxAttempts
    /\ fs' = [fs EXCEPT !.pc = "returned"]
                @@ [result |-> FailureRecord(fs.symbol, fs.last_error)]
    /\ UNCHANGED appVars

\* The caller takes the record (or the exception); the next call may start.
FsDone ==
    /\ fs.pc \in {"returned", "raised"}
    /\ fs' = FsIdle
    /\ UNCHANGED appVars

InitFetch ==
    /\ fs = FsIdle
    /\ clock = [day |-> 1, tod |-> 0]
    /\ flagFile = NoFile
    /\ histFile = NoFile
    /\ cache = NoEntry
    /\ run = [s \in {"s1", "s2"} |-> FsIdle]
    /\ sched = [day |-> -1, n |-> 0, lastStart |-> -1]

NextFetch == FsCall \/ FsWarmUp \/ FsAttempt \/ FsGiveUp \/ FsDone

SpecFetch == InitFetch /\ [][NextFetch]_vars

----------------------------------------------------------------------------
(* The wall clock *)

HMS(h, m, s) == h * 3600 + m * 60 + s
\* dtime(15, 30), line 55
CutoffTod == HMS(15, 30, 0)

\* The moments of a day at which the model looks at the clock.
Tods == {HMS(15, 29, 55), HMS(15, 30, 0), HMS(15, 30, 5), HMS(16, 0, 0)}
\* The days the model runs through are 1..MaxDay; day 0 is the day before.
MaxDay == 1

\* Seconds from one clock reading to a later one.
Elapsed(from, to) == (to.day - from.day) * 24 * 3600 + to.tod - from.tod

\* strftime("%Y-%m-%d"): the text of a date, lines 36 and 48
Strftime(day) == Str(<<"date", day>>)


----------------------------------------------------------------------------
(* fetch_data, lines 144-154, under st.cache_data(ttl=10) *)

\* ttl=10, line 144
TTL == 10

\* The whole retry loop of lines 94-138 on the responses resps[1..3]: the
\* record of the first attempt that does not raise, else the failure record.
RECURSIVE RetryLoop(_, _, _, _)
RetryLoop(symbol, resps, i, last_error) ==
    IF i > MaxAttempts THEN FailureRecord(symbol, last_error)
    ELSE LET a == Attempt(symbol, resps[i])
         IN  IF a.returns THEN a.record
             ELSE RetryLoop(symbol, resps, i + 1, a.error)

FetchSingle(symbol, resps) == RetryLoop(symbol, resps, 1, NoneV)

\* Upstream behaviours for one symbol during one fetch_data call.
FullQuote == [kind |-> "json", priceInfo |-> "dict", lastPrice |-> Num(105),
              previousClose |-> Num(100), totalTradedVolume |-> Num(12345)]
PatternOk == <<FullQuote, FullQuote, FullQuote>>
PatternRetry == <<[kind |-> "conn"], [kind |-> "http"], FullQuote>>
PatternFail == <<[kind |-> "conn"], [kind |-> "http"], [kind |-> "nonjson"]>>

\* Upstream behaviours for the whole list during one call: all symbols answer,
\* all answer on the third attempt, all fail, the first fails.
BatchScenarios ==
    { [i \in 1..NumStocks |-> PatternOk],
      [i \in 1..NumStocks |-> PatternRetry],
      [i \in 1..NumStocks |-> PatternFail],
      [i \in 1..NumStocks |-> IF i = 1 THEN PatternFail ELSE PatternOk] }

\* The keys of the record of lines 116-123, in order
BaseColumns == <<"Symbol", "Current Price", "Previous Close", "Percent Change (%)",
                 "Volume", "Value (Cr)">>

\* pd.DataFrame(results), line 148: the columns are the keys in order of first
\* appearance, so "Error" is a column when some record carries it; a record
\* without the key has NaN (None) there.
DfColumns(results) ==
    IF \E i \in 1..Len(results) : results[i].HasErrorKey
    THEN Append(BaseColumns, "Error") ELSE BaseColumns

CellOf(r, col) ==
    CASE col = "Symbol" -> Str(r.Symbol)
      [] col = "Current Price" -> r.CurrentPrice
      [] col = "Previous Close" -> r.PreviousClose
      [] col = "Percent Change (%)" -> r.PercentChange
      [] col = "Volume" -> r.Volume
      [] col = "Value (Cr)" -> r.ValueCr
      [] OTHER -> IF r.HasErrorKey THEN r.Error ELSE NoneV

\* A frame of the successful records only.
DataFrame_DropFailed(results) ==
    LET kept == SelectSeq(results, LAMBDA r : ~r.HasErrorKey)
        cols == DfColumns(kept)
    IN  [columns |-> cols,
         rows |-> [i \in 1..Len(kept) |->
                     [j \in 1..Len(cols) |-> CellOf(kept[i], cols[j])]]]

\* pd.DataFrame(results), line 148: one row per record, in the order of results
DataFrame(results) ==
    LET cols == DfColumns(results)
    IN  [columns |-> cols,
         rows |-> [i \in 1..Len(results) |->
                     [j \in 1..Len(cols) |-> CellOf(results[i], cols[j])]]]

\* df[col] of one row
Cell(df, row, col) ==
    row[CHOOSE j \in 1..Len(df.columns) : df.columns[j] = col]

\* df["Current Price"].isna().all(), line 151
TotalFailure(df) == \A i \in 1..Len(df.rows) : Cell(df, df.rows[i], "Current Price") = NoneV

\* executor.map(fetch_single, symbols) and pd.DataFrame, lines 146-148
FetchAll(symbols, scenario) ==
    DataFrame([i \in 1..Len(symbols) |-> FetchSingle(symbols[i], scenario[i])])

\* An entry expires ttl seconds after it was written.
CacheHit_HalfTTL(entry, t) == entry # NoEntry /\ Elapsed(entry.at, t) < TTL \div 2

\* st.cache_data's lookup: the entry is there and younger than ttl.
CacheHit(entry, t) == entry # NoEntry /\ Elapsed(entry.at, t) < TTL

\* Lines 151-153, inside the function body: fetch_data.clear() drops what is
\* memoized when every Current Price is absent.
ClearInBody(entry, df) == IF TotalFailure(df) THEN NoEntry ELSE entry

\* After the body has returned, st.cache_data writes the returned value under
\* the call's key, with the time of the write.
Memoize(entry, df, t) == [value |-> df, at |-> t]

\* An entry older than ttl is never returned again: it is as good as gone.
Expire(entry, t) ==
    IF entry # NoEntry /\ Elapsed(entry.at, t) < TTL THEN entry ELSE NoEntry

\* Time passes.
Tick ==
    /\ \E t \in [day : 1..MaxDay, tod : Tods] :
         /\ Elapsed(clock, t) > 0
         /\ clock' = t
         /\ cache' = Expire(cache, t)
    /\ UNCHANGED <<fs, flagFile, histFile, run, sched>>

\* A refresh that leaves the cache alone.
ClearOnRefresh_Never(refresh_clicked, entry) == entry

\* Lines 209-210: if refresh_clicked: fetch_data.clear()
ClearOnRefresh(refresh_clicked, entry) == IF refresh_clicked THEN NoEntry ELSE entry

----------------------------------------------------------------------------
(* The flag file and the history file *)

\* is_today_saved, lines 35-40, on the date the clock shows
IsTodaySaved(flag, today) == flag # NoFile /\ flag = Strftime(today)

\* A cutoff test on the hour alone: now.hour >= 15.
AfterCutoff_HourOnly(tod) == tod >= HMS(15, 0, 0)

\* now.time() >= dtime(15, 30), line 55
AfterCutoff(tod) == tod >= CutoffTod

\* to_csv writes None/NaN as the empty field.
CsvField(v) == IF v = NoneV THEN Str("") ELSE v

\* df_to_save of lines 161-162 as to_csv writes it: a Date cell closes each row.
CsvRows(df, today) ==
    [i \in 1..Len(df.rows) |->
        [j \in 1..(Len(df.columns) + 1) |->
            IF j <= Len(df.columns) THEN CsvField(df.rows[i][j]) ELSE DateV(today)]]

CsvHeader(df) == Append(df.columns, "Date")

\* to_csv in its default mode "w": the file is written anew, header first.
WriteHistory_Rewrite(file, df, today) ==
    [header |-> CsvHeader(df), rows |-> CsvRows(df, today)]

\* Lines 166-169: append without header to an existing file, else create it
\* with the header.
WriteHistory(file, df, today) ==
    IF file # NoFile
    THEN [file EXCEPT !.rows = @ \o CsvRows(df, today)]
    ELSE [header |-> CsvHeader(df), rows |-> CsvRows(df, today)]

\* What a failed or interrupted to_csv can leave: the file as it was, or all
\* that was written before the failure (the created file, its header, the
\* first rows), never the last row.
InterruptedWrites(file, df, today) ==
    LET new == CsvRows(df, today)
        parts == {SubSeq(new, 1, k) : k \in 0..(Len(new) - 1)}
    IN  IF file # NoFile
        THEN {[file EXCEPT !.rows = @ \o part] : part \in parts}
        ELSE {NoFile, [header |-> <<>>, rows |-> <<>>]}
             \cup {[header |-> CsvHeader(df), rows |-> part] : part \in parts}

----------------------------------------------------------------------------
(* load_history, lines 172-188, and the comparison, lines 236-255 *)

\* pd.Timedelta(days=20), line 185
WindowDays == 20

\* pd.DataFrame(): no columns, no rows
EmptyFrame == [raises |-> FALSE, columns |-> <<>>, rows |-> <<>>]
Raised(e) == [raises |-> TRUE, error |-> e]

\* read_csv reads an empty field as NaN.
ReadField(v) == IF v = Str("") THEN NoneV ELSE v

\* The names read_csv gives the columns: those of the header line, or, in a
\* file that was created empty and appended to without a header, the fields
\* of its first row.
CsvNames(file) ==
    IF file.header # <<>> THEN [j \in 1..Len(file.header) |-> Str(file.header[j])]
    ELSE file.rows[1]

\* The lines read_csv takes for data.
CsvData(file) == IF file.header # <<>> THEN file.rows ELSE Tail(file.rows)

\* pd.read_csv(HISTORY_FILE), line 176. A file without a line raises
\* EmptyDataError. A first data line with more fields than there are names
\* gives its leading fields to the index; a later line with more fields than
\* that raises ParserError; a line with fewer fields is filled with NaN.
ReadCsv(file) ==
    IF file.header = <<>> /\ file.rows = <<>> THEN Raised("EmptyDataError")
    ELSE LET names == CsvNames(file)
             data == CsvData(file)
             width == IF data # <<>> /\ Len(data[1]) > Len(names)
                      THEN Len(data[1]) ELSE Len(names)
             lead == width - Len(names)
         IN  IF \E i \in 1..Len(data) : Len(data[i]) > width
             THEN Raised("ParserError")
             ELSE [raises |-> FALSE,
                   columns |-> names,
                   rows |-> [i \in 1..Len(data) |->
                               [j \in 1..Len(names) |->
                                   IF j + lead <= Len(data[i])
                                   THEN ReadField(data[i][j + lead]) ELSE NoneV]]]

\* "name" in df.columns
HasColumn(df, name) == \E j \in 1..Len(df.columns) : df.columns[j] = Str(name)

\* df[name] of one row of a frame read from the file
Field(df, row, name) ==
    row[CHOOSE j \in 1..Len(df.columns) : df.columns[j] = Str(name)]

\* pd.to_datetime, line 181: a date text is parsed, NaN becomes NaT, any other
\* text raises. (A number would be read as an offset from the epoch; the Date
\* column of a file this program wrote holds none.)
DateParses(v) == v = NoneV \/ "date" \in DOMAIN v

SetMax(S) == CHOOSE x \in S : \A y \in S : y <= x

\* Lines 185-186: cutoff = max - 20 days; Date >= cutoff
InWindow(date, max) == date >= max - WindowDays

\* load_history, lines 172-188
LoadHistory(file) ==
    IF file = NoFile THEN EmptyFrame
    ELSE LET df_hist == ReadCsv(file)
         IN  IF df_hist.raises THEN df_hist
             ELSE IF ~HasColumn(df_hist, "Date") THEN EmptyFrame
             ELSE LET dates == [i \in 1..Len(df_hist.rows) |->
                                   Field(df_hist, df_hist.rows[i], "Date")]
                      stored == {dates[i].date : i \in {k \in 1..Len(dates) : dates[k] # NoneV}}
                  IN  IF \E i \in 1..Len(dates) : ~DateParses(dates[i])
                      THEN Raised("DateParseError")
                      ELSE IF df_hist.rows = <<>> THEN EmptyFrame
                      ELSE [df_hist EXCEPT !.rows =
                              SelectSeq(@, LAMBDA row :
                                  LET d == Field(df_hist, row, "Date")
                                  IN  /\ d # NoneV
                                      /\ stored # {}
                                      /\ InWindow(d.date, SetMax(stored)))]

\* history_df.empty, line 238
IsEmptyFrame(df) == df.columns = <<>> \/ df.rows = <<>>

\* Exact fractions for the float arithmetic of lines 243-255.
Frac(n, d) == [fnum |-> n, fden |-> d]
Inf == [inf |-> TRUE]
IsFrac(v) == "fnum" \in DOMAIN v

RECURSIVE SumOf(_)
SumOf(s) == IF s = <<>> THEN 0 ELSE Head(s) + SumOf(Tail(s))

\* Lines 243-248: groupby("Symbol")["Value (Cr)"].mean(): one average per
\* symbol met in the window, the mean of its values that are not NaN, NaN when
\* it has none. A text in the column raises TypeError.
AvgTurnover(history_df) ==
    LET keys == {Field(history_df, history_df.rows[i], "Symbol") :
                    i \in 1..Len(history_df.rows)} \ {NoneV}
        valuesOf(k) ==
            LET mine == SelectSeq(history_df.rows, LAMBDA row :
                            /\ Field(history_df, row, "Symbol") = k
                            /\ Field(history_df, row, "Value (Cr)") # NoneV)
            IN  [i \in 1..Len(mine) |-> Field(history_df, mine[i], "Value (Cr)").num]
    IN  [k \in keys |->
            IF valuesOf(k) = <<>> THEN NoneV
            ELSE Frac(SumOf(valuesOf(k)), Len(valuesOf(k)))]

\* Lines 252-255: (value - avg) / avg * 100 on floats: NaN when either is
\* NaN, and on a zero average NaN for 0 / 0, infinite otherwise.
TurnoverVsAvg(value, avg) ==
    IF value = NoneV \/ avg = NoneV THEN NoneV
    ELSE IF avg.fnum = 0 THEN (IF value.num = 0 THEN NoneV ELSE Inf)
    ELSE Frac((value.num * avg.fden - avg.fnum) * 100, avg.fnum)

\* Line 250: df.merge(avg_turnover, on="Symbol", how="left"): every row of df,
\* with the average of its symbol, NaN when there is none.
Merge(df, avg) ==
    [i \in 1..Len(df.rows) |->
        [Symbol |-> Cell(df, df.rows[i], "Symbol"),
         Value |-> Cell(df, df.rows[i], "Value (Cr)"),
         Avg |-> IF Cell(df, df.rows[i], "Symbol") \in DOMAIN avg
                 THEN avg[Cell(df, df.rows[i], "Symbol")] ELSE NoneV]]

\* Are all the cells of a column of the file numbers or NaN?
NumericColumn(df, name) ==
    \A i \in 1..Len(df.rows) :
        LET v == Field(df, df.rows[i], name) IN v = NoneV \/ IsNum(v)

\* Lines 236-255: what the rest of the script shows: the live frame when the
\* history is empty, else the comparison; or the exception that ends the run.
View(file, df) ==
    LET history_df == LoadHistory(file)
    IN  IF history_df.raises THEN [mode |-> "raised", error |-> history_df.error]
        ELSE IF IsEmptyFrame(history_df)
        THEN [mode |-> "live", history |-> history_df]
        ELSE IF ~HasColumn(history_df, "Symbol") \/ ~HasColumn(history_df, "Value (Cr)")
        THEN [mode |-> "raised", error |-> "KeyError"]
        ELSE IF ~NumericColumn(ReadCsv(file), "Value (Cr)")
        THEN [mode |-> "raised", error |-> "TypeError"]
        ELSE LET merged == Merge(df, AvgTurnover(history_df))
             IN  [mode |-> "comparison",
                  history |-> history_df,
                  comparison |->
                      [i \in 1..Len(merged) |->
                          [TurnoverVsAvg |-> TurnoverVsAvg(merged[i].Value, merged[i].Avg)]
                          @@ merged[i]]]

----------------------------------------------------------------------------
(* The script, rerun by Streamlit for a session: lines 194-338 *)

Sessions == {"s1", "s2"}
\* The session whose reruns Spec follows.
Primary == "s1"

Idle == [pc |-> "idle"]

\* The observer: of the current day's evaluations (should_store_if_missed
\* returned, and save_daily_history ran or was cut short when it returned True)
\* made at or after the cutoff with every clock reading on that day, their
\* number (up to 2), the flag file before the first and after the first and
\* the second, what the first decided; and the day on which the latest
\* evaluation started.
NoEvaluations == [day |-> -1, n |-> 0, lastStart |-> -1]

Evaluated(o, r, flag, decided) ==
    IF ~(r.onDay /\ AfterCutoff(r.now.tod)) THEN o
    ELSE IF o.day # r.now.day
    THEN [day |-> r.now.day, n |-> 1, lastStart |-> o.lastStart,
          flag0 |-> r.flag0, flag1 |-> flag, decided1 |-> decided]
    ELSE IF o.n = 1 THEN [n |-> 2, flag2 |-> flag] @@ o
    ELSE o

\* A rerun starts; lines 200 and 209-210: the button, and the clear it asks for.
Rerun(s) ==
    /\ run[s].pc = "idle"
    /\ \E refresh_clicked \in BOOLEAN :
         /\ cache' = ClearOnRefresh(refresh_clicked, cache)
         /\ run' = [run EXCEPT ![s] =
                      [pc |-> "fetch", refresh |-> refresh_clicked,
                       hadFresh |-> CacheHit(cache, clock)]]
    /\ UNCHANGED <<fs, clock, flagFile, histFile, sched>>

\* Line 216, df = fetch_data(stocks): a memoized entry younger than ttl is
\* returned as it is; else the function body runs.
FetchLookup(s) ==
    /\ run[s].pc = "fetch"
    /\ run' = [run EXCEPT ![s] =
                 IF CacheHit(cache, clock)
                 THEN [pc |-> "sched", df |-> cache.value, hit |-> TRUE] @@ @
                 ELSE [@ EXCEPT !.pc = "computing"]]
    /\ UNCHANGED <<fs, clock, flagFile, histFile, cache, sched>>

\* Lines 146-154, then the decorator: the body fetches every symbol, calls
\* fetch_data.clear() when every Current Price is absent, and returns; the
\* decorator then memoizes what the body returned.
FetchCompute(s) ==
    /\ run[s].pc = "computing"
    /\ \E scenario \in BatchScenarios :
         LET df == FetchAll(Watchlist, scenario)
         IN  /\ cache' = Memoize(ClearInBody(cache, df), df, clock)
             /\ run' = [run EXCEPT ![s] =
                          [pc |-> "sched", df |-> df, hit |-> FALSE] @@ @]
    /\ UNCHANGED <<fs, clock, flagFile, histFile, sched>>

\* ---- should_store_if_missed, lines 46-61

\* Lines 47-48: now = datetime.now()
SsimNow(s) ==
    /\ run[s].pc = "sched"
    /\ run' = [run EXCEPT ![s] =
                 [pc |-> "ssim_check", df |-> @.df, now |-> clock, flag0 |-> flagFile,
                  hist0 |-> histFile, onDay |-> TRUE,
                  firstToday |-> (sched.lastStart < clock.day)]]
    /\ sched' = [sched EXCEPT !.lastStart = clock.day]
    /\ UNCHANGED <<fs, clock, flagFile, histFile, cache>>

\* Lines 51-55 and 61: is_today_saved() on date.today(), then the cutoff test
\* on now; False is returned unless the flag file is to be written.
SsimCheck(s) ==
    /\ run[s].pc = "ssim_check"
    /\ LET r == [run[s] EXCEPT !.onDay = (clock.day = run[s].now.day)]
           write == /\ ~IsTodaySaved(flagFile, clock.day)
                    /\ AfterCutoff(r.now.tod)
       IN  /\ run' = [run EXCEPT ![s] =
                        [r EXCEPT !.pc = IF write THEN "ssim_write" ELSE "indicator"]]
           /\ sched' = IF write THEN sched ELSE Evaluated(sched, r, flagFile, FALSE)
    /\ UNCHANGED <<fs, clock, flagFile, histFile, cache>>

\* Lines 56-59: the flag file is (re)written with today_str and True is
\* returned.
SsimWriteDone(s) ==
    /\ run[s].pc = "ssim_write"
    /\ flagFile' = Strftime(run[s].now.day)
    /\ run' = [run EXCEPT ![s].pc = "save"]
    /\ UNCHANGED <<fs, clock, histFile, cache, sched>>

\* Lines 56-58 fail: the write leaves the file as it was or truncated, and the
\* exception ends the script run.
SsimWriteFails(s) ==
    /\ run[s].pc = "ssim_write"
    /\ flagFile' \in {flagFile, Str(<<>>)}
    /\ run' = [run EXCEPT ![s] = Idle]
    /\ UNCHANGED <<fs, clock, histFile, cache, sched>>

SsimWrite(s) == SsimWriteDone(s) \/ SsimWriteFails(s)

\* Line 220, save_daily_history(df), lines 160-169, dated date.today().
SaveDailyHistoryDone(s) ==
    /\ run[s].pc = "save"
    /\ LET r == [run[s] EXCEPT !.onDay = @ /\ clock.day = run[s].now.day]
       IN  /\ histFile' = WriteHistory(histFile, r.df, clock.day)
           /\ run' = [run EXCEPT ![s] = [r EXCEPT !.pc = "indicator"]]
           /\ sched' = Evaluated(sched, r, flagFile, TRUE)
    /\ UNCHANGED <<fs, clock, flagFile, cache>>

\* The write of lines 164-169 fails part-way and the exception ends the
\* script run.
SaveDailyHistoryFails(s) ==
    /\ run[s].pc = "save"
    /\ LET r == [run[s] EXCEPT !.onDay = @ /\ clock.day = run[s].now.day]
       IN  /\ histFile' \in InterruptedWrites(histFile, r.df, clock.day)
           /\ run' = [run EXCEPT ![s] = Idle]
           /\ sched' = Evaluated(sched, r, flagFile, TRUE)
    /\ UNCHANGED <<fs, clock, flagFile, cache>>

SaveDailyHistory(s) == SaveDailyHistoryDone(s) \/ SaveDailyHistoryFails(s)

\* Lines 225-230: the indicator of today's snapshot.
Indicator(s) ==
    /\ run[s].pc = "indicator"
    /\ run' = [run EXCEPT ![s] = [pc |-> "history", df |-> @.df]]
    /\ UNCHANGED <<fs, clock, flagFile, histFile, cache, sched>>

\* Lines 236-255: load_history() and, unless it is empty, the averages and
\* the merge with the live frame.
Aggregate(s) ==
    /\ run[s].pc = "history"
    /\ run' = [run EXCEPT ![s] = [pc |-> "view", df |-> @.df,
                                  view |-> View(histFile, @.df)]]
    /\ UNCHANGED <<fs, clock, flagFile, histFile, cache, sched>>

\* Lines 240 and 257-338: the tables and charts are drawn from the view (or
\* the exception is shown); the run ends.
Render(s) ==
    /\ run[s].pc = "view"
    /\ run' = [run EXCEPT ![s] = Idle]
    /\ UNCHANGED <<fs, clock, flagFile, histFile, cache, sched>>

\* The process stops and starts again: the memoized entry and the script runs
\* are lost, the files stay.
Restart ==
    /\ cache' = NoEntry
    /\ run' = [s \in Sessions |-> Idle]
    /\ sched' = IF run[Primary].pc = "save"
                THEN Evaluated(sched, run[Primary], flagFile, TRUE)
                ELSE sched
    /\ UNCHANGED <<fs, clock, flagFile, histFile>>

\* The process starts on day 1 before the cutoff, on a fresh install or after
\* a day on which the snapshot was taken.
Init ==
    /\ fs = FsIdle
    /\ clock = [day |-> 1, tod |-> HMS(15, 29, 55)]
    /\ \/ /\ flagFile = NoFile
          /\ histFile = NoFile
       \/ /\ flagFile = Strftime(0)
          /\ histFile = WriteHistory(NoFile, FetchAll(Watchlist, [i \in 1..NumStocks |-> PatternOk]), 0)
    /\ cache = NoEntry
    /\ run = [s \in Sessions |-> Idle]
    /\ sched = NoEvaluations

Cycle(s) ==
    \/ Rerun(s)
    \/ FetchLookup(s)
    \/ FetchCompute(s)
    \/ SsimNow(s)
    \/ SsimCheck(s)
    \/ SsimWrite(s)
    \/ SaveDailyHistory(s)
    \/ Indicator(s)
    \/ Aggregate(s)
    \/ Render(s)

Next == Cycle(Primary) \/ Tick \/ Restart

Spec == Init /\ [][Next]_vars

----------------------------------------------------------------------------
(* Two sessions in one process (SpecSessions) *)

\* Streamlit runs the script of each browser session in a thread of its own,
\* in the one server process: the runs of two sessions interleave line by
\* line, over the same files and the same st.cache_data entry. The process
\* is up on day 1 at the cutoff, and no write fails.
InitSessions ==
    /\ fs = FsIdle
    /\ clock = [day |-> 1, tod |-> CutoffTod]
    /\ \/ /\ flagFile = NoFile
          /\ histFile = NoFile
       \/ /\ flagFile = Strftime(0)
          /\ histFile = WriteHistory(NoFile, FetchAll(Watchlist, [i \in 1..NumStocks |-> PatternOk]), 0)
    /\ cache = NoEntry
    /\ run = [s \in Sessions |-> Idle]
    /\ sched = NoEvaluations

\* A script run on a disk that takes every write.
CycleOnSoundDisk(s) ==
    \/ Rerun(s)
    \/ FetchLookup(s)
    \/ FetchCompute(s)
    \/ SsimNow(s)
    \/ SsimCheck(s)
    \/ SsimWriteDone(s)
    \/ SaveDailyHistoryDone(s)
    \/ Indicator(s)
    \/ Aggregate(s)
    \/ Render(s)

NextSessions == \E s \in Sessions : CycleOnSoundDisk(s)

SpecSessions == InitSessions /\ [][NextSessions]_vars

----------------------------------------------------------------------------
(* The history read back and compared, over many stored days (SpecHistory) *)

\* The latest date a stored snapshot carries.
MaxDate == 26

\* A quote on a day without trades: the value is 0.
QuietQuote == [kind |-> "json", priceInfo |-> "dict", lastPrice |-> Num(100),
               previousClose |-> Num(100), totalTradedVolume |-> Num(0)]
\* A quote with twice the trades.
BusyQuote == [kind |-> "json", priceInfo |-> "dict", lastPrice |-> Num(105),
              previousClose |-> Num(100), totalTradedVolume |-> Num(24690)]

\* The live frame of a day, by the kind of day: every symbol answers, every
\* symbol answers with no trades, with twice the trades, the first symbol
\* fails, every symbol fails.
DayKinds == {"ok", "quiet", "busy", "firstFails", "allFail"}
FrameOf(kind) ==
    FetchAll(Watchlist,
        [i \in 1..NumStocks |->
            CASE kind = "ok" -> PatternOk
              [] kind = "quiet" -> <<QuietQuote, QuietQuote, QuietQuote>>
              [] kind = "busy" -> <<BusyQuote, BusyQuote, BusyQuote>>
              [] kind = "firstFails" -> (IF i = 1 THEN PatternFail ELSE PatternOk)
              [] OTHER -> PatternFail])

\* data/history.csv created without a line: to_csv was cut short at once.
EmptyFile == [header |-> <<>>, rows |-> <<>>]

\* The file after save_daily_history has run on each day of days, in order,
\* with the frame of that day.
RECURSIVE StoredOver(_, _, _, _)
StoredOver(file, day, days, kindOf) ==
    IF day > MaxDate THEN file
    ELSE StoredOver(IF day \in days
                    THEN WriteHistory(file, FrameOf(kindOf[day]), day) ELSE file,
                    day + 1, days, kindOf)

\* The history files read back: none, an empty one, one with its header
\* alone (to_csv cut short after the header), and those left by
\* snapshots of one kind on every day 1..n or on days 1 and n only, and by
\* snapshots of any kinds on days 1..2 and 1..3, on no file or on an empty one.
HistoryFiles ==
    {NoFile, EmptyFile}
    \cup { [header |-> CsvHeader(FrameOf(kind)), rows |-> <<>>] : kind \in DayKinds }
    \cup { StoredOver(base, 1, days, [d \in 1..MaxDate |-> kind]) :
             base \in {NoFile, EmptyFile},
             days \in {1..n : n \in 1..MaxDate} \cup {{1, n} : n \in 2..MaxDate},
             kind \in DayKinds }
    \cup { StoredOver(base, 1, 1..n, kindOf) :
             base \in {NoFile, EmptyFile},
             n \in 2..3,
             kindOf \in [1..3 -> DayKinds] }

\* A script run has come to line 236 with a live frame, on the latest date
\* the model stores or 30 days after it.
InitHistory ==
    /\ fs = FsIdle
    /\ clock \in [day : {MaxDate, MaxDate + 30}, tod : {HMS(16, 0, 0)}]
    /\ flagFile = NoFile
    /\ histFile \in HistoryFiles
    /\ cache = NoEntry
    /\ \E kind \in DayKinds :
         run = [s \in Sessions |->
                  IF s = Primary THEN [pc |-> "history", df |-> FrameOf(kind)] ELSE Idle]
    /\ sched = NoEvaluations

NextHistory == Aggregate(Primary) \/ Render(Primary)

SpecHistory == InitHistory /\ [][NextHistory]_vars

----------------------------------------------------------------------------
(* fetch_data, lines 144-154, worker by worker (SpecPool) *)

\* ThreadPoolExecutor(max_workers=10), line 146
max_workers == 10

\* Symbols a caller may pass besides those of stocks.
MoreSymbols == <<"AXISBANK", "MARUTI", "TITAN", "WIPRO">>
\* The longest symbol list passed to fetch_data.
MaxSymbols == 11
\* The lists passed: one symbol, two, and more symbols than workers.
SymbolLists == {SubSeq(stocks \o MoreSymbols, 1, n) : n \in {1, 2, MaxSymbols}}

\* Upstream behaviours for a list of n symbols during one call: all answer,
\* all fail, the odd ones fail, the even ones answer on the third attempt.
PoolScenarios(n) ==
    { [i \in 1..n |-> PatternOk],
      [i \in 1..n |-> PatternFail],
      [i \in 1..n |-> IF i % 2 = 1 THEN PatternFail ELSE PatternOk],
      [i \in 1..n |-> IF i % 2 = 0 THEN PatternRetry ELSE PatternOk] }

\* The work items being executed by a worker thread.
InFlight(tasks) == {i \in 1..Len(tasks) : tasks[i] = "running"}

\* A pool that starts a thread for every work item.
CanStart_Unbounded(tasks) == TRUE

\* The executor runs at most max_workers threads; each executes one work item
\* at a time.
CanStart(tasks) == Cardinality(InFlight(tasks)) < max_workers

\* The work items are queued in the order of symbols, and taken in that order.
NextQueued(tasks, i) ==
    /\ tasks[i] = "queued"
    /\ \A j \in 1..(i - 1) : tasks[j] # "queued"

\* Results are taken as soon as one work item has completed.
JoinReady_FirstCompleted(tasks) == \E i \in 1..Len(tasks) : tasks[i] = "done"

\* list(executor.map(...)) yields the result of every work item, in the order
\* of symbols, waiting for each; leaving the with block waits for all.
JoinReady(tasks) == \A i \in 1..Len(tasks) : tasks[i] = "done"

\* The results at hand, in the order of symbols.
RECURSIVE Collected(_, _, _)
Collected(tasks, results, i) ==
    IF i > Len(tasks) THEN <<>>
    ELSE (IF tasks[i] = "done" THEN <<results[i]>> ELSE <<>>)
         \o Collected(tasks, results, i + 1)

\* fetch_data(symbols) is called: the memoized entry of the list, if younger
\* than ttl, is returned as it is; else the body starts, and executor.map
\* queues one work item per symbol (line 147).
PoolCall(s) ==
    /\ run[s].pc = "idle"
    /\ IF CacheHit(cache, clock)
       THEN run' = [run EXCEPT ![s] =
                      [pc |-> "returned", df |-> cache.value, hit |-> TRUE] @@ @]
       ELSE \E scenario \in PoolScenarios(Len(run[s].symbols)) :
              run' = [run EXCEPT ![s] =
                        [pc |-> "pool", hit |-> FALSE, upstream |-> scenario,
                         tasks |-> [i \in 1..Len(run[s].symbols) |-> "queued"],
                         calls |-> [i \in 1..Len(run[s].symbols) |-> 0],
                         results |-> [i \in 1..Len(run[s].symbols) |-> NoneV]] @@ @]
    /\ UNCHANGED <<fs, clock, flagFile, histFile, cache, sched>>

\* A worker thread takes the next work item and calls fetch_single(symbol).
PoolStart(s) ==
    /\ run[s].pc = "pool"
    /\ CanStart(run[s].tasks)
    /\ \E i \in 1..Len(run[s].tasks) :
         /\ NextQueued(run[s].tasks, i)
         /\ run' = [run EXCEPT ![s].tasks[i] = "running",
                                ![s].calls[i] = @ + 1]
    /\ UNCHANGED <<fs, clock, flagFile, histFile, cache, sched>>

\* A fetch_single call returns its record: warm-up and retry loop ran on the
\* call's own session and locals, against the upstream answers for its symbol.
PoolFinish(s) ==
    /\ run[s].pc = "pool"
    /\ \E i \in InFlight(run[s].tasks) :
         run' = [run EXCEPT ![s].tasks[i] = "done",
                            ![s].results[i] =
                               FetchSingle(run[s].symbols[i], run[s].upstream[i])]
    /\ UNCHANGED <<fs, clock, flagFile, histFile, cache, sched>>

\* Lines 147-154, then the decorator: results are complete, the frame is
\* built, fetch_data.clear() is called when every Current Price is absent,
\* the body returns and the decorator memoizes what it returned.
PoolJoin(s) ==
    /\ run[s].pc = "pool"
    /\ JoinReady(run[s].tasks)
    /\ LET df == DataFrame(Collected(run[s].tasks, run[s].results, 1))
       IN  /\ cache' = Memoize(ClearInBody(cache, df), df, clock)
           /\ run' = [run EXCEPT ![s] = [pc |-> "returned", df |-> df] @@ @]
    /\ UNCHANGED <<fs, clock, flagFile, histFile, sched>>

\* The caller has the frame; it may call again.
PoolReturn(s) ==
    /\ run[s].pc = "returned"
    /\ run' = [run EXCEPT ![s] = [pc |-> "idle", symbols |-> @.symbols]]
    /\ UNCHANGED <<fs, clock, flagFile, histFile, cache, sched>>

\* Time passes between two calls.
PoolTick ==
    /\ run[Primary].pc = "idle"
    /\ Tick

InitPool ==
    /\ fs = FsIdle
    /\ clock = [day |-> 1, tod |-> HMS(15, 29, 55)]
    /\ flagFile = NoFile
    /\ histFile = NoFile
    /\ cache = NoEntry
    /\ \E symbols \in SymbolLists :
         run = [s \in Sessions |-> [pc |-> "idle", symbols |-> symbols]]
    /\ sched = NoEvaluations

NextPool ==
    \/ PoolCall(Primary)
    \/ PoolStart(Primary)
    \/ PoolFinish(Primary)
    \/ PoolJoin(Primary)
    \/ PoolReturn(Primary)
    \/ PoolTick

SpecPool == InitPool /\ [][NextPool]_vars

----------------------------------------------------------------------------
(* Quote Fetcher properties (SpecFetch) *)

\* What the claims call a failed quote attempt: no 2xx JSON object came back,
\* or a field that enters the arithmetic is not a number.
AttemptFailed(resp) ==
    \/ resp.kind # "json"
    \/ /\ resp.priceInfo = "dict"
       /\ IsStr(resp.lastPrice)
       /\ \/ resp.previousClose \notin {NoneV, Num(0)}
          \/ resp.totalTradedVolume # NoneV

\* The raw field a payload carries, absent when priceInfo or the field is.
Payload(resp, key) ==
    IF resp.kind = "json" /\ resp.priceInfo = "dict" THEN resp[key] ELSE NoneV

ErrorSet(r) == r.HasErrorKey /\ r.Error # NoneV

Returned == fs.pc = "returned"
LastSeen == fs.seen[Len(fs.seen)]
AllFailed == \A i \in 1..Len(fs.seen) : AttemptFailed(fs.seen[i])

C9_NeverRaises ==
    /\ fs.pc # "raised"
    /\ fs.pc \in {"warmup", "attempt"} =>
          /\ fs.attempts <= MaxAttempts
          /\ ENABLED (FsWarmUp \/ FsAttempt \/ FsGiveUp)
    /\ Returned =>
          /\ fs.result.Symbol = fs.symbol
          /\ fs.result.Error \in {NoneV} \cup {Str(e) : e \in {"Failed to fetch",
                "ConnectionError", "HTTPError", "JSONDecodeError", "AttributeError",
                "TypeError"}}
          /\ AllFailed /\ Len(fs.seen) = MaxAttempts => ErrorSet(fs.result)

\* C9 witness: the warm-up failed, then a connection failure, a non-2xx status
\* and a non-JSON body, and the call returned a record with Error.
C9_Witness ==
    /\ Returned
    /\ fs.warmFailed
    /\ fs.seen = <<[kind |-> "conn"], [kind |-> "http"], [kind |-> "nonjson"]>>
    /\ fs.result.Error = Str("JSONDecodeError")

\* x is num / den rounded to the nearest hundredth (den > 0).
NearestHundredth(x, num, den) ==
    LET d == x * den - num * 100
    IN  2 * (IF d < 0 THEN -d ELSE d) <= den

\* C10: in every record fetch_single returns, Value (Cr) is absent exactly
\* when Current Price or Volume is absent, Percent Change (%) is absent exactly
\* when Current Price is absent or Previous Close is absent or zero, and a
\* present derived field is the one computed from the record's own raw fields.
C10_DerivedFieldLaws ==
    Returned =>
        LET r == fs.result
        IN  /\ r.ValueCr = NoneV <=> (r.CurrentPrice = NoneV \/ r.Volume = NoneV)
            /\ r.PercentChange = NoneV <=>
                  (r.CurrentPrice = NoneV \/ r.PreviousClose \in {NoneV, Num(0)})
            /\ r.ValueCr # NoneV =>
                  /\ IsNum(r.ValueCr) /\ IsNum(r.CurrentPrice) /\ IsNum(r.Volume)
                  /\ NearestHundredth(r.ValueCr.num,
                                      r.CurrentPrice.num * r.Volume.num, Crore)
            /\ r.PercentChange # NoneV =>
                  /\ IsNum(r.PercentChange) /\ IsNum(r.CurrentPrice)
                  /\ IsNum(r.PreviousClose)
                  /\ NearestHundredth(r.PercentChange.num,
                                      (r.CurrentPrice.num - r.PreviousClose.num) * 100,
                                      r.PreviousClose.num)

\* C10 witness: both derived fields present and rounded (105 against 100 with
\* 12345 traded: 5.00 % and 0.13 Cr).
C10_Witness ==
    /\ Returned
    /\ fs.result.CurrentPrice = Num(105)
    /\ fs.result.PreviousClose = Num(100)
    /\ fs.result.Volume = Num(12345)
    /\ fs.result.PercentChange = Num(500)
    /\ fs.result.ValueCr = Num(13)

----------------------------------------------------------------------------
(* Snapshot Scheduler properties (Spec) *)

LastCell(row) == row[Len(row)]

\* The rows of the history file that carry date d in their last field.
RowsDated(file, d) ==
    IF file = NoFile THEN {}
    ELSE {i \in 1..Len(file.rows) : LastCell(file.rows[i]) = DateV(d)}

\* The file holds a row dated d for every symbol of the list.
HasSnapshot(file, d) ==
    \A k \in 1..NumStocks :
        \E i \in RowsDated(file, d) : file.rows[i][1] = Str(Watchlist[k])

Quiet == run[Primary].pc = "idle"

\* C1, as stated: once two consecutive evaluations of a day have been made at
\* or after the cutoff, exactly one snapshot of that day has been appended
\* (one row per symbol) and the flag after the second is the flag after the
\* first.
C1_Original ==
    sched.n = 2 =>
        /\ sched.flag2 = sched.flag1
        /\ Cardinality(RowsDated(histFile, sched.day)) = NumStocks
        /\ HasSnapshot(histFile, sched.day)

\* C2, as stated: when the first evaluation of day D at or after the cutoff
\* finds the flag absent or holding another date, it decides to capture and
\* leaves the flag at D and the snapshot of D in the history file, where both
\* stay through later evaluations and restarts.
C2_Original ==
    (sched.n >= 1 /\ sched.flag0 # Strftime(sched.day)) =>
        /\ sched.decided1
        /\ sched.flag1 = Strftime(sched.day)
        /\ HasSnapshot(histFile, sched.day)

\* C3, as stated: whenever no script run is in progress and the flag file
\* holds date D, the history file holds the snapshot of D.
C3_Original ==
    \A d \in 0..MaxDay :
        (Quiet /\ flagFile = Strftime(d)) => HasSnapshot(histFile, d)

\* C4: an evaluation whose clock readings are all on day D and that started
\* with the flag at D, or before the cutoff with the flag not at D, ends with
\* the flag file and the history file as they were when it started; and the
\* first evaluation started on a day finds is_today_saved false, and goes on
\* to write when the cutoff has passed.
C4_Step ==
    LET r == run[Primary]
        r2 == run'[Primary]
        today == Strftime(clock.day)
    IN  /\ ( /\ r.pc \in {"ssim_check", "ssim_write", "save"}
             /\ r2.pc \in {"indicator", "idle"}
             /\ r.onDay /\ clock.day = r.now.day
             /\ r.flag0 = today \/ r.now.tod < CutoffTod )
           => (flagFile' = r.flag0 /\ histFile' = r.hist0 /\ r.pc = "ssim_check")
        /\ ( /\ r.pc = "ssim_check"
             /\ r2.pc \in {"indicator", "ssim_write"}
             /\ r.firstToday /\ clock.day = r.now.day )
           => /\ flagFile # today
              /\ r.now.tod >= CutoffTod => r2.pc = "ssim_write"

\* C4, over every step of the script: the per-day state machine above.
C4_SchedulerStateMachine == [][C4_Step]_vars

\* C4 witness: an evaluation on a day whose snapshot is already saved has
\* ended and changed nothing.
C4_Witness ==
    LET r == run[Primary]
    IN  /\ r.pc = "indicator"
        /\ r.onDay /\ clock.day = r.now.day
        /\ r.flag0 = Strftime(clock.day)
        /\ HasSnapshot(r.hist0, clock.day)
        /\ flagFile = r.flag0 /\ histFile = r.hist0

----------------------------------------------------------------------------
(* Fetch Orchestrator cache properties (Spec) *)

\* C5, as stated: no fetch_data call is served from the cache with a record
\* set in which every Current Price is absent.
C5_Original ==
    LET r == run[Primary]
    IN  (r.pc = "sched" /\ r.hit) => ~TotalFailure(r.df)

\* C6: a fetch_data call that finds an entry memoized less than ttl seconds
\* ago runs no fetches and returns the memoized record set, leaving the entry
\* as it is.
C6_Step ==
    LET r == run[Primary]
        r2 == run'[Primary]
    IN  ( /\ r.pc = "fetch"
          /\ r2.pc \in {"computing", "sched"}
          /\ cache # NoEntry
          /\ Elapsed(cache.at, clock) < TTL )
        => (r2.pc = "sched" /\ r2.hit /\ r2.df = cache.value /\ cache' = cache)

\* C6, over every step of the script: a call inside the ttl window of a
\* memoized entry issues no fetches and returns the memoized record set.
C6_CacheHit == [][C6_Step]_vars

\* C6 witness: a call made some seconds after the entry was written, inside
\* the ttl, was served from the cache.
C6_Witness ==
    LET r == run[Primary]
    IN  /\ r.pc = "sched" /\ r.hit
        /\ cache # NoEntry
        /\ Elapsed(cache.at, clock) > 0 /\ Elapsed(cache.at, clock) < TTL
        /\ r.df = cache.value

\* C7: in a run with the refresh requested nothing is memoized when
\* fetch_data is called, and the run's record set is freshly fetched, not
\* served from the cache.
C7_ForcedRefresh ==
    LET r == run[Primary]
    IN  /\ (r.pc = "fetch" /\ r.refresh) => cache = NoEntry
        /\ (r.pc = "sched" /\ r.refresh) => ~r.hit

\* C7 witness: the refresh was requested while an entry younger than ttl was
\* memoized, and the run fetched anew.
C7_Witness ==
    LET r == run[Primary]
    IN  /\ r.pc = "sched" /\ r.refresh /\ r.hadFresh /\ ~r.hit

----------------------------------------------------------------------------
(* Fetch Orchestrator fan-out properties (SpecPool) *)

\* The rows of a frame that carry the symbol.
RowsOf(df, symbol) ==
    {j \in 1..Len(df.rows) : Cell(df, df.rows[j], "Symbol") = Str(symbol)}

----------------------------------------------------------------------------
(* History Store & Aggregator properties (SpecHistory, Spec) *)

\* The columns of the store, section 6 of the specification
StoreColumns == <<"Symbol", "Current Price", "Previous Close", "Percent Change (%)",
                  "Volume", "Value (Cr)", "Date">>

\* The file has the header of the store and every row has its columns, the
\* last one a date.
WellFormed(file) ==
    /\ file # NoFile
    /\ file.header = StoreColumns
    /\ \A i \in 1..Len(file.rows) :
          /\ Len(file.rows[i]) = Len(StoreColumns)
          /\ "date" \in DOMAIN LastCell(file.rows[i])

\* The dates of the entries of a well-formed file, or of a frame read from it.
DatesOf(rows) == {LastCell(rows[i]).date : i \in 1..Len(rows)}

\* The script run has loaded the history and built its view.
Viewed == run[Primary].pc = "view"

\* C12, as stated: with History Entries dated day 1..25 and a window of 20,
\* load_history returns exactly the entries dated 6..25, whatever the day the
\* wall clock shows.
C12_Original ==
    (Viewed /\ WellFormed(histFile) /\ DatesOf(histFile.rows) = 1..25) =>
        LET v == run[Primary].view
        IN  /\ v.mode = "comparison"
            /\ DatesOf(v.history.rows) = 6..25
            /\ Len(v.history.rows) = 20 * NumStocks

\* s is the beginning of t.
IsPrefix(s, t) == Len(s) <= Len(t) /\ SubSeq(t, 1, Len(s)) = s

\* C13: whatever a step does to the history file, an existing file keeps its
\* header and all its rows, in place, and what is new comes after them; the
\* header is written only to a file that did not exist; the file is never
\* removed.
C13_Step ==
    /\ histFile # NoFile =>
          /\ histFile' # NoFile
          /\ histFile'.header = histFile.header
          /\ IsPrefix(histFile.rows, histFile'.rows)
    /\ (histFile = NoFile /\ histFile' # NoFile) =>
          \A i \in 1..Len(histFile'.rows) :
              LastCell(histFile'.rows[i]) = DateV(clock.day)

\* C13, over every step of the script.
C13_AppendOnly == [][C13_Step]_vars

\* C13 witness: the snapshot of day 1 stands after the snapshot of day 0,
\* which is as it was stored, under the header written with it.
C13_Witness ==
    /\ histFile # NoFile
    /\ Len(histFile.rows) = 2 * NumStocks
    /\ histFile.header = StoreColumns
    /\ \A i \in 1..NumStocks :
          /\ histFile.rows[i] =
                WriteHistory(NoFile, FrameOf("ok"), 0).rows[i]
          /\ LastCell(histFile.rows[NumStocks + i]) = DateV(1)

\* C14, as stated: whenever the history file has a header, its columns are
\* those of the store, in order, every row has exactly these columns, and the
\* Date column of every row holds the row's capture date.
C14_Original ==
    (histFile # NoFile /\ histFile.header # <<>>) =>
        /\ histFile.header = StoreColumns
        /\ \A i \in 1..Len(histFile.rows) :
              /\ Len(histFile.rows[i]) = Len(histFile.header)
              /\ "date" \in DOMAIN histFile.rows[i][Len(StoreColumns)]

\* The average of a symbol over the window handed to the merge, as the claim
\* reads it: the mean of the symbol's values, absent when it has none.
WindowValues(history_df, symbol) ==
    LET mine == SelectSeq(history_df.rows, LAMBDA row :
                    row[1] = symbol /\ IsNum(row[6]))
    IN  [i \in 1..Len(mine) |-> mine[i][6].num]

\* C15, as stated: in the comparison every live record appears exactly once,
\* in order; its percentage is (value - average) / average x 100 when the
\* average is present and not zero (absent when the value is), and is absent
\* when the symbol has no average in the window or the average is zero.
C15_Original ==
    LET r == run[Primary]
        v == r.view
    IN  (Viewed /\ v.mode = "comparison" /\ WellFormed(histFile)) =>
          /\ Len(v.comparison) = Len(r.df.rows)
          /\ \A i \in 1..Len(r.df.rows) :
                LET row == v.comparison[i]
                    value == Cell(r.df, r.df.rows[i], "Value (Cr)")
                    values == WindowValues(v.history, row.Symbol)
                    n == Len(values)
                    sum == SumOf(values)
                IN  /\ row.Symbol = Cell(r.df, r.df.rows[i], "Symbol")
                    /\ (n = 0 \/ sum = 0) => row.TurnoverVsAvg = NoneV
                    /\ (n > 0 /\ sum # 0 /\ value = NoneV) => row.TurnoverVsAvg = NoneV
                    /\ (n > 0 /\ sum # 0 /\ value # NoneV) =>
                          /\ IsFrac(row.TurnoverVsAvg)
                          \* pct = (value - sum/n) / (sum/n) * 100
                          /\ row.TurnoverVsAvg.fnum * sum
                               = (value.num * n - sum) * 100 * row.TurnoverVsAvg.fden

\* The store is absent, is empty (no line, or the header alone), or is read
\* without a Date column.
StoreAbsent == histFile = NoFile
StoreEmpty == histFile # NoFile /\ histFile.rows = <<>>
StoreLacksDate ==
    /\ histFile # NoFile
    /\ histFile.rows # <<>>
    /\ \A j \in 1..Len(CsvNames(histFile)) : CsvNames(histFile)[j] # Str("Date")

\* C16, as stated: when the store is absent, empty or without the Date
\* column, load_history returns an empty frame without raising and the run
\* shows the live frame alone.
C16_Original ==
    (Viewed /\ (StoreAbsent \/ StoreEmpty \/ StoreLacksDate)) =>
        /\ run[Primary].view.mode = "live"
        /\ IsEmptyFrame(run[Primary].view.history)

----------------------------------------------------------------------------
(* Concurrency properties (SpecSessions, SpecPool) *)

\* C17, as stated: however the scheduler evaluations of two sessions
\* interleave on a day, at most one of them captures the snapshot: the
\* history file never holds more than one snapshot (one row per symbol) of a
\* day.
C17_Original ==
    \A d \in 0..MaxDay : Cardinality(RowsDated(histFile, d)) <= NumStocks

\* The fetch_data call in progress, or just returned from its body.
Fanned == run[Primary].pc = "pool" \/ (run[Primary].pc = "returned" /\ ~run[Primary].hit)

\* C18: during a fetch_data call on a list of any size, at most 10
\* fetch_single calls are in flight at a time; no symbol is fetched twice,
\* and when the call returns every symbol of the list has been fetched
\* exactly once.
C18_BoundedFanOut ==
    LET r == run[Primary]
    IN  Fanned =>
          /\ Cardinality(InFlight(r.tasks)) <= 10
          /\ \A i \in 1..Len(r.symbols) :
                /\ r.calls[i] = (IF r.tasks[i] = "queued" THEN 0 ELSE 1)
                /\ r.pc = "returned" => r.calls[i] = 1

\* C18 witness: 10 fetches are in flight while a symbol of the list waits.
C18_Witness ==
    LET r == run[Primary]
    IN  /\ r.pc = "pool"
        /\ Cardinality(InFlight(r.tasks)) = 10
        /\ \E i \in 1..Len(r.tasks) : r.tasks[i] = "queued"

\* C19: fetch_data builds its frame and returns only when every fetch_single
\* it dispatched has completed; each completed fetch holds the record of its
\* own symbol and upstream answers, whatever the others did meanwhile, so
\* the frame returned is the one a sequential pass over the list gives.
C19_JoinBarrier ==
    LET r == run[Primary]
    IN  Fanned =>
          /\ \A i \in 1..Len(r.symbols) :
                r.tasks[i] = "done" =>
                    r.results[i] = RetryLoop(r.symbols[i], r.upstream[i], 1, NoneV)
          /\ r.pc = "returned" =>
                /\ \A i \in 1..Len(r.symbols) : r.tasks[i] = "done"
                /\ Len(r.df.rows) = Len(r.symbols)
                /\ \A i \in 1..Len(r.symbols) :
                      /\ Cell(r.df, r.df.rows[i], "Symbol") = Str(r.symbols[i])
                      /\ Cell(r.df, r.df.rows[i], "Current Price")
                           = r.results[i].CurrentPrice
                      /\ Cell(r.df, r.df.rows[i], "Value (Cr)") = r.results[i].ValueCr
                /\ TotalFailure(r.df) <=>
                      \A i \in 1..Len(r.symbols) : r.results[i].CurrentPrice = NoneV

\* C19 witness: a call on the longest list has returned a frame that mixes
\* failed and successful records, every fetch completed.
C19_Witness ==
    LET r == run[Primary]
    IN  /\ r.pc = "returned" /\ ~r.hit
        /\ Len(r.symbols) = MaxSymbols
        /\ \A i \in 1..Len(r.symbols) : r.tasks[i] = "done"
        /\ r.results[1].HasErrorKey /\ ~r.results[2].HasErrorKey

----------------------------------------------------------------------------
(* Quote Fetcher retry protocol (SpecFetch) *)

\* C20: a fetch_single call makes exactly one warm-up request, whether it
\* fails or not, and then quote attempts 1..k with k at most 3: every attempt
\* before the last made has failed, and the call returns after attempt k
\* because attempt k succeeded or because k is 3.
C20_RetryProtocol ==
    /\ fs.pc = "warmup" => (fs.warmups = 0 /\ fs.attempts = 0)
    /\ fs.pc \in {"attempt", "returned"} =>
          /\ fs.warmups = 1
          /\ fs.attempts = Len(fs.seen)
          /\ Len(fs.seen) <= 3
    /\ fs.pc = "attempt" =>
          \A i \in 1..Len(fs.seen) : AttemptFailed(fs.seen[i])
    /\ Returned =>
          /\ Len(fs.seen) >= 1
          /\ \A i \in 1..(Len(fs.seen) - 1) : AttemptFailed(fs.seen[i])
          /\ Len(fs.seen) < 3 => ~AttemptFailed(LastSeen)

\* C20 witness: the warm-up failed, the first quote attempt failed, the second
\* succeeded and the call returned without a third.
C20_Witness ==
    /\ Returned
    /\ fs.warmFailed
    /\ fs.warmups = 1
    /\ Len(fs.seen) = 2
    /\ AttemptFailed(fs.seen[1])
    /\ ~AttemptFailed(fs.seen[2])

====
